---- MODULE Spec2Model ----
(***************************************************************************)
(* State-machine model of the dynamic mask filter                          *)
(* (source/filters/filter-dynamic-mask.cpp): one dynamic_mask_instance,    *)
(* the host's settings object for it, the host callbacks update, load,    *)
(* save, video_tick, video_render, show, hide, activate and deactivate,    *)
(* and the destructor.                                                     *)
(***************************************************************************)
EXTENDS Integers, FiniteSets, Sequences, TLC

(***************************************************************************)
(* Bounds of the model.                                                    *)
(***************************************************************************)
\* video_render calls the host makes between two video_tick calls.
MaxCalls == 2
\* Threads that call data::get and drop what it returned.
MaxThreads == 3

(***************************************************************************)
(* Program constants.                                                      *)
(***************************************************************************)
\* enum gs_color_space, in the order the switch and the <= test rely on.
GS_CS_SRGB == 0
GS_CS_SRGB_16F == 1
GS_CS_709_EXTENDED == 2
GS_CS_709_SCRGB == 3
\* A value outside the four cases of the switch (its default branch).
GS_CS_OTHER == 4
ColorSpaces == {GS_CS_SRGB, GS_CS_SRGB_16F, GS_CS_709_EXTENDED, GS_CS_709_SCRGB, GS_CS_OTHER}

\* Factory defaults of get_defaults2, returned for keys a settings object lacks.
DefaultValue == 1
DefaultMultiplier == 1
DefaultInput == 0

\* channel::Red, Green, Blue, Alpha as indices, the order of channel_translations.
Channels == 0 .. 3

\* 2^24: up to this magnitude every integer is a float_t (IEEE single
\* precision, 24 significand bits).
FloatExact == 16777216

(***************************************************************************)
(* Numeric conversions.  Settings hold doubles; the instance holds floats. *)
(* The values used here are integers, which a double holds exactly.        *)
(***************************************************************************)
Abs(x) == IF x < 0 THEN -x ELSE x

\* Spacing of neighbouring floats around magnitude a (1 while a < 2^24).
RECURSIVE Ulp(_)
Ulp(a) == IF a < FloatExact THEN 1 ELSE 2 * Ulp(a \div 2)

\* Round a >= 0 to a multiple of g, to nearest, ties to the even multiple.
RoundNearestEven(a, g) ==
    LET q == a \div g
        r == a % g
    IN  IF 2 * r < g THEN q * g
        ELSE IF 2 * r > g THEN (q + 1) * g
        ELSE IF q % 2 = 0 THEN q * g ELSE (q + 1) * g

\* static_cast<float_t>(double): round to the nearest single-precision value.
CastFloat(d) ==
    LET a == Abs(d)
        m == RoundNearestEven(a, Ulp(a))
    IN  IF d < 0 THEN -m ELSE m

\* static_cast<double_t>(float): every float is a double, the value is kept.
CastDouble(f) == f + 0

(***************************************************************************)
(* Settings objects (obs_data_t).  has[c] tells whether the keys of output *)
(* channel c are present; an absent key reads as its factory default.      *)
(***************************************************************************)
NoSource == "none"

\* Names that resolve to a source the filter may bind.
Sources == {"A", "B"}
\* Resolves, but making it a child of the filter would close a render cycle.
CycleName == "Parent"
\* Does not resolve to any source.
GoneName == "Gone"
Names == {""} \cup Sources \cup {CycleName, GoneName}

\* All sixteen weights, both vectors distinct; -200 and 150 lie outside the
\* slider range [-100, 100]; 16777217 = 2^24 + 1 is no single-precision value.
Distinct ==
    [has    |-> [c \in Channels |-> TRUE],
     value  |-> [c \in Channels |-> IF c = 0 THEN -200 ELSE c + 1],
     scale  |-> [c \in Channels |-> IF c = 3 THEN 150 ELSE 10 + c],
     values |-> [c \in Channels |-> [i \in Channels |->
                    IF c = 1 /\ i = 2 THEN 16777217 ELSE 20 + 4 * c + i]]]

\* Identity mix: weight 1 of channel c on itself, offset 0, scale 1.
Identity ==
    [has    |-> [c \in Channels |-> TRUE],
     value  |-> [c \in Channels |-> 0],
     scale  |-> [c \in Channels |-> 1],
     values |-> [c \in Channels |-> [i \in Channels |-> IF c = i THEN 1 ELSE 0]]]

\* Red and Alpha keys absent, Green and Blue present.
Partial ==
    [has    |-> [c \in Channels |-> c \in {1, 2}],
     value  |-> [c \in Channels |-> IF c \in {1, 2} THEN 7 ELSE 0],
     scale  |-> [c \in Channels |-> IF c \in {1, 2} THEN -3 ELSE 0],
     values |-> [c \in Channels |-> [i \in Channels |->
                    IF c \in {1, 2} THEN 5 - i ELSE 0]]]

ChannelPatterns == {Distinct, Identity, Partial}
DebugValues == {-1, 0, 1}

MkSettings(name, p, dbg) ==
    [input |-> name, has |-> p.has, value |-> p.value, scale |-> p.scale,
     values |-> p.values, debug |-> dbg]

AllSettings ==
    {MkSettings(n, p, d) : n \in Names, p \in ChannelPatterns, d \in DebugValues}

\* A read that yields 0 for an absent offset key.
GetValue_ZeroDefault(d, c) == IF d.has[c] THEN d.value[c] ELSE 0

\* obs_data_get_double on the three kinds of channel key.
GetValue(d, c) == IF d.has[c] THEN d.value[c] ELSE DefaultValue
GetMultiplier(d, c) == IF d.has[c] THEN d.scale[c] ELSE DefaultMultiplier
GetInput(d, c, i) == IF d.has[c] THEN d.values[c][i] ELSE DefaultInput

(***************************************************************************)
(* The instance and its host.                                              *)
(***************************************************************************)
VARIABLES
    data,                \* the host's settings object of this filter
    showing,             \* _self.showing() and its filter parent's showing()
    active,              \* _self.active() and its filter parent's active()
    _input,              \* weak reference to the secondary source, or NoSource
    _input_child,        \* source the filter holds as active child
    _input_vs,           \* source the filter holds a showing reference on
    _input_ac,           \* source the filter holds an active reference on
    _have_base, _base_tex, _base_color_space, _base_color_format, _base_srgb,
    _have_input, _input_tex, _input_color_space, _input_color_format, _input_srgb,
    _have_final, _final_tex, _final_srgb,
    _channels,           \* channel -> channel_data {value, scale, values}
    _precalc,            \* {base, scale, matrix}
    _debug_texture,
    ticked,              \* the host has called video_tick at least once
    calls,               \* video_render calls since the last video_tick
    base_renders,        \* process_filter_end calls since the last video_tick
    last,                \* the last call the host made, and what it observed
    gs,                  \* the host's graphics state: the linear-sRGB flag, the
                         \* framebuffer-sRGB flag, the depth of the blend stack
    instance_lock,       \* data::get: the thread that holds the mutex, or NoThread
    weak_instance,       \* data::get: the data object the weak_ptr names, or NoObject
    use_count,           \* data object -> number of shared_ptr owners
    _channel_mask_fx,    \* the data objects whose effect is loaded
    instance,            \* thread -> the shared_ptr it holds (the local of
                         \* data::get, then what the caller keeps), or NoObject
    pc                   \* thread -> where it is in data::get and after it

binding == <<_input, _input_child, _input_vs, _input_ac>>
host == <<showing, active, gs>>
base_slot == <<_have_base, _base_tex, _base_color_space, _base_color_format, _base_srgb>>
input_slot == <<_have_input, _input_tex, _input_color_space, _input_color_format, _input_srgb>>
final_slot == <<_have_final, _final_tex, _final_srgb>>
store == <<_channels, _precalc>>
counters == <<ticked, calls, base_renders>>
singleton == <<instance_lock, weak_instance, use_count, _channel_mask_fx, instance, pc>>
vars == <<data, host, binding, base_slot, input_slot, final_slot, store,
          _debug_texture, counters, last, singleton>>

\* The four members of the binding with nothing bound and nothing held.
NoBinding == [input |-> NoSource, child |-> NoSource, vs |-> NoSource, ac |-> NoSource]

\* What `last` records of a call; each action overrides the fields it observes.
Call(op) ==
    [op      |-> op,
     ok      |-> "na",     \* what acquire returned: "true", "false", "na" (not called)
     name    |-> "",       \* the input name update read
     prev    |-> NoBinding,\* update, load, destroy: the binding before the call
     tz      |-> FALSE,    \* video_render: the target reported a zero dimension
     iz      |-> FALSE,    \* video_render: the bound input reported a zero dimension
     hadbase |-> FALSE,    \* video_render: _have_base before the call
     zero    |-> FALSE,    \* video_render left at the zero-dimension test
     drawn   |-> FALSE,    \* video_render drew the final texture
     mixed   |-> FALSE,    \* video_render completed the mixing pass
     bflag   |-> FALSE,    \* video_tick: the target declares OBS_SOURCE_SRGB
     iflag   |-> FALSE,    \* video_tick: the input declares OBS_SOURCE_SRGB
     valid   |-> FALSE,    \* video_tick: all three slots were valid before it
     trace   |-> <<>>,     \* video_render: what the call did, in order
     failed  |-> FALSE]    \* video_tick: the one render call of the tick before
                           \* ended in skip_zero or skip_final; video_render: the
                           \* call follows such a video_tick directly

\* No callback reaches the instance after its destructor.
Alive == last.op # "destroy"

(***************************************************************************)
(* Secondary source binding: show, hide, activate, deactivate, acquire,    *)
(* release, on a record b of the four members.                             *)
(***************************************************************************)
Binding == [input |-> _input, child |-> _input_child, vs |-> _input_vs, ac |-> _input_ac]

\* weak_source(name) throws unless the name resolves to a source.
Resolves(name) == name \in Sources \cup {CycleName}
\* source_active_child(self, source) throws when the host detects recursion.
Recursion(name) == name = CycleName

show(b, shw) ==
    IF b.input = NoSource \/ ~shw THEN b ELSE [b EXCEPT !.vs = b.input]

hide(b) == [b EXCEPT !.vs = NoSource]

activate(b, act) ==
    IF b.input = NoSource \/ ~act THEN b ELSE [b EXCEPT !.ac = b.input]

deactivate(b) == [b EXCEPT !.ac = NoSource]

\* A release that does not call hide().
release_NoHide(b) ==
    [deactivate(b) EXCEPT !.child = NoSource, !.input = NoSource]

release(b) ==
    LET b1 == hide(deactivate(b))
    IN  [b1 EXCEPT !.child = NoSource, !.input = NoSource]

\* An acquire whose catch handler returns false without release().
acquire_NoRelease(b, name, shw, act) ==
    IF ~Resolves(name)
    THEN [b |-> b, ok |-> FALSE]
    ELSE LET b1 == [b EXCEPT !.input = name]
         IN  IF Recursion(name)
             THEN [b |-> b1, ok |-> FALSE]
             ELSE LET b2 == [b1 EXCEPT !.child = name]
                  IN  [b |-> show(activate(b2, act), shw), ok |-> TRUE]

\* The result pairs the members after the call with the value returned.
acquire(b, name, shw, act) ==
    IF ~Resolves(name)
    THEN [b |-> release(b), ok |-> FALSE]
    ELSE LET b1 == [b EXCEPT !.input = name]
         IN  IF Recursion(name)
             THEN [b |-> release(b1), ok |-> FALSE]
             ELSE LET b2 == [b1 EXCEPT !.child = name]
                  IN  [b |-> show(activate(b2, act), shw), ok |-> TRUE]

SetBinding(b) ==
    /\ _input' = b.input
    /\ _input_child' = b.child
    /\ _input_vs' = b.vs
    /\ _input_ac' = b.ac

(***************************************************************************)
(* update and save: the data store and the precalculated transform.        *)
(***************************************************************************)
\* A switch whose Green and Blue cases are exchanged.
MatrixRow_GreenBlue(c) == IF c = 1 THEN 2 ELSE IF c = 2 THEN 1 ELSE c

\* The switch of update: the row of _precalc.matrix (x, y, z, t) of channel c.
MatrixRow(c) == c

\* One pass of the loop over channel_translations, from channel c on.
RECURSIVE UpdateStore(_, _, _, _)
UpdateStore(d, ch, pre, c) ==
    IF c \notin Channels THEN [channels |-> ch, precalc |-> pre]
    ELSE LET cd == [value  |-> CastFloat(GetValue(d, c)),
                    scale  |-> CastFloat(GetMultiplier(d, c)),
                    values |-> [i \in Channels |-> CastFloat(GetInput(d, c, i))]]
             p1 == [pre EXCEPT !.base[c] = cd.value,
                               !.scale[c] = cd.scale,
                               !.matrix[MatrixRow(c)] = cd.values]
         IN  UpdateStore(d, [ch EXCEPT ![c] = cd], p1, c + 1)

\* Members before the constructor's update(settings): channel_data() and
\* _precalc() are zero-filled.
ZeroVec == [i \in Channels |-> 0]
ZeroChannels == [c \in Channels |-> [value |-> 0, scale |-> 0, values |-> ZeroVec]]
ZeroPrecalc == [base |-> ZeroVec, scale |-> ZeroVec, matrix |-> [r \in Channels |-> ZeroVec]]

\* update(settings): the binding, the store, the debug selector.
update(d, b, ch, pre, shw, act) ==
    LET acq == IF d.input # "" THEN acquire(b, d.input, shw, act)
               ELSE [b |-> release(b), ok |-> FALSE]
        st  == UpdateStore(d, ch, pre, 0)
    IN  [b        |-> acq.b,
         ok       |-> IF d.input = "" THEN "na" ELSE IF acq.ok THEN "true" ELSE "false",
         channels |-> st.channels,
         precalc  |-> st.precalc,
         debug    |-> d.debug]

\* A save that clamps what it writes to the slider range.
Clamp(v) == IF v < -100 THEN -100 ELSE IF v > 100 THEN 100 ELSE v

save_Clamped(d, inp, ch) ==
    [d EXCEPT !.input  = IF inp # NoSource THEN inp ELSE @,
              !.has    = [c \in Channels |-> TRUE],
              !.value  = [c \in Channels |-> Clamp(CastDouble(ch[c].value))],
              !.scale  = [c \in Channels |-> Clamp(CastDouble(ch[c].scale))],
              !.values = [c \in Channels |->
                            [i \in Channels |-> Clamp(CastDouble(ch[c].values[i]))]]]

\* save(settings): the settings object after the call.
save(d, inp, ch) ==
    [d EXCEPT !.input  = IF inp # NoSource THEN inp ELSE @,
              !.has    = [c \in Channels |-> TRUE],
              !.value  = [c \in Channels |-> CastDouble(ch[c].value)],
              !.scale  = [c \in Channels |-> CastDouble(ch[c].scale)],
              !.values = [c \in Channels |->
                            [i \in Channels |-> CastDouble(ch[c].values[i])]]]

ApplyUpdate(d, op) ==
    LET u == update(d, Binding, _channels, _precalc, showing, active)
    IN  /\ Alive
        /\ UNCHANGED singleton
        /\ SetBinding(u.b)
        /\ _channels' = u.channels
        /\ _precalc' = u.precalc
        /\ _debug_texture' = u.debug
        /\ last' = [Call(op) EXCEPT !.ok = u.ok, !.name = d.input, !.prev = Binding]
        /\ UNCHANGED <<host, base_slot, input_slot, final_slot, counters>>

\* The host changes the settings to s and calls update.
Update(SS) ==
    \E s \in SS :
        /\ data' = s
        /\ ApplyUpdate(s, "update")

\* load(settings): update with the settings object as stored.
Load ==
    /\ data' = data
    /\ ApplyUpdate(data, "load")

Save ==
    /\ Alive
    /\ UNCHANGED singleton
    /\ data' = save(data, _input, _channels)
    /\ last' = Call("save")
    /\ UNCHANGED <<host, binding, base_slot, input_slot, final_slot, store,
                   _debug_texture, counters>>

(***************************************************************************)
(* Visibility and activity callbacks, and the host state they read.        *)
(***************************************************************************)
Show ==
    /\ Alive
    /\ UNCHANGED singleton
    /\ SetBinding(show(Binding, showing))
    /\ last' = Call("show")
    /\ UNCHANGED <<data, host, base_slot, input_slot, final_slot, store,
                   _debug_texture, counters>>

Hide ==
    /\ Alive
    /\ UNCHANGED singleton
    /\ SetBinding(hide(Binding))
    /\ last' = Call("hide")
    /\ UNCHANGED <<data, host, base_slot, input_slot, final_slot, store,
                   _debug_texture, counters>>

Activate ==
    /\ Alive
    /\ UNCHANGED singleton
    /\ SetBinding(activate(Binding, active))
    /\ last' = Call("activate")
    /\ UNCHANGED <<data, host, base_slot, input_slot, final_slot, store,
                   _debug_texture, counters>>

Deactivate ==
    /\ Alive
    /\ UNCHANGED singleton
    /\ SetBinding(deactivate(Binding))
    /\ last' = Call("deactivate")
    /\ UNCHANGED <<data, host, base_slot, input_slot, final_slot, store,
                   _debug_texture, counters>>

\* ~dynamic_mask_instance(): release().
Destroy ==
    /\ Alive
    /\ UNCHANGED singleton
    /\ SetBinding(release(Binding))
    /\ last' = [Call("destroy") EXCEPT !.prev = Binding]
    /\ UNCHANGED <<data, host, base_slot, input_slot, final_slot, store,
                   _debug_texture, counters>>

\* The host renders something else between two calls and leaves other sRGB
\* flags behind.
HostGraphics ==
    \E l \in BOOLEAN, f \in BOOLEAN :
        /\ Alive
        /\ UNCHANGED singleton
        /\ <<l, f>> # <<gs.linear_srgb, gs.framebuffer_srgb>>
        /\ gs' = [gs EXCEPT !.linear_srgb = l, !.framebuffer_srgb = f]
        /\ last' = Call("graphics")
        /\ UNCHANGED <<showing, active>>
        /\ UNCHANGED <<data, binding, base_slot, input_slot, final_slot, store,
                       _debug_texture, counters>>

\* The filter or its parent becomes (in)visible or (in)active in the host.
HostState ==
    \E s \in BOOLEAN, a \in BOOLEAN :
        /\ Alive
        /\ UNCHANGED singleton
        /\ <<s, a>> # <<showing, active>>
        /\ showing' = s
        /\ active' = a
        /\ UNCHANGED gs
        /\ last' = Call("host")
        /\ UNCHANGED <<data, binding, base_slot, input_slot, final_slot, store,
                       _debug_texture, counters>>

(***************************************************************************)
(* video_tick: colour space negotiation and invalidation.                  *)
(***************************************************************************)
\* The switch on _base_color_space.
BaseColorFormat(cs) ==
    IF cs = GS_CS_SRGB THEN "GS_RGBA"
    ELSE IF cs \in {GS_CS_SRGB_16F, GS_CS_709_EXTENDED, GS_CS_709_SCRGB} THEN "GS_RGBA16F"
    ELSE "GS_RGBA_UNORM"

\* A switch without the GS_CS_709_SCRGB case.
InputColorFormat_NoScRGB(cs) ==
    IF cs = GS_CS_SRGB THEN "GS_RGBA"
    ELSE IF cs \in {GS_CS_SRGB_16F, GS_CS_709_EXTENDED} THEN "GS_RGBA16F"
    ELSE "GS_RGBA_UNORM"

\* The switch on _input_color_space.
InputColorFormat(cs) ==
    IF cs = GS_CS_SRGB THEN "GS_RGBA"
    ELSE IF cs \in {GS_CS_SRGB_16F, GS_CS_709_EXTENDED, GS_CS_709_SCRGB} THEN "GS_RGBA16F"
    ELSE "GS_RGBA_UNORM"

\* _base_srgb from the target's output flags and the base colour space.
BaseSrgb(flag, bcs) == IF flag THEN bcs <= GS_CS_SRGB_16F ELSE FALSE

\* _input_srgb from the input's output flags; the test reads _base_color_space.
InputSrgb(flag, bcs, ics) == IF flag THEN bcs <= GS_CS_SRGB_16F ELSE FALSE

\* A tick whose else branch does not clear _have_input.
video_tick_KeepsInput(bcs, bflag, ics, iflag) ==
    /\ _have_base' = FALSE
    /\ _base_color_space' = bcs
    /\ _base_color_format' = BaseColorFormat(bcs)
    /\ _base_srgb' = BaseSrgb(bflag, bcs)
    /\ IF _input # NoSource
       THEN /\ _have_input' = FALSE
            /\ _input_color_space' = ics
            /\ _input_color_format' = InputColorFormat(ics)
            /\ _input_srgb' = InputSrgb(iflag, bcs, ics)
       ELSE UNCHANGED <<_have_input, _input_color_space, _input_color_format, _input_srgb>>
    /\ _have_final' = FALSE
    /\ _final_srgb' = BaseSrgb(bflag, bcs)
    /\ UNCHANGED <<_base_tex, _input_tex, _final_tex>>

\* bcs, bflag: colour space and sRGB flag the target reports; ics, iflag: those
\* of the bound input (read only when one is bound).
video_tick(bcs, bflag, ics, iflag) ==
    /\ _have_base' = FALSE
    /\ _base_color_space' = bcs
    /\ _base_color_format' = BaseColorFormat(bcs)
    /\ _base_srgb' = BaseSrgb(bflag, bcs)
    /\ IF _input # NoSource
       THEN /\ _have_input' = FALSE
            /\ _input_color_space' = ics
            /\ _input_color_format' = InputColorFormat(ics)
            /\ _input_srgb' = InputSrgb(iflag, bcs, ics)
       ELSE /\ _have_input' = FALSE
            /\ UNCHANGED <<_input_color_space, _input_color_format, _input_srgb>>
    /\ _have_final' = FALSE
    /\ _final_srgb' = BaseSrgb(bflag, bcs)
    /\ UNCHANGED <<_base_tex, _input_tex, _final_tex>>

\* A tick that releases the secondary source.
VideoTick_Unbinds(CS) ==
    \E bcs \in CS, bflag \in BOOLEAN :
      \E ics \in (IF _input # NoSource THEN CS ELSE {GS_CS_SRGB}),
         iflag \in (IF _input # NoSource THEN BOOLEAN ELSE {FALSE}) :
        /\ Alive
        /\ UNCHANGED singleton
        /\ video_tick(bcs, bflag, ics, iflag)
        /\ ticked' = TRUE
        /\ calls' = 0
        /\ base_renders' = 0
        /\ last' = [Call("video_tick") EXCEPT
                        !.bflag = bflag, !.iflag = iflag,
                        !.valid = (_have_base /\ _have_input /\ _have_final),
                        !.failed = (/\ calls = 1
                                    /\ last.op = "video_render"
                                    /\ last.trace[Len(last.trace)]
                                          \in {"skip_zero", "skip_final"})]
        /\ SetBinding(release(Binding))
        /\ UNCHANGED <<data, host, store, _debug_texture>>

VideoTick(CS) ==
    \E bcs \in CS, bflag \in BOOLEAN :
      \E ics \in (IF _input # NoSource THEN CS ELSE {GS_CS_SRGB}),
         iflag \in (IF _input # NoSource THEN BOOLEAN ELSE {FALSE}) :
        /\ Alive
        /\ UNCHANGED singleton
        /\ video_tick(bcs, bflag, ics, iflag)
        /\ ticked' = TRUE
        /\ calls' = 0
        /\ base_renders' = 0
        /\ last' = [Call("video_tick") EXCEPT
                        !.bflag = bflag, !.iflag = iflag,
                        !.valid = (_have_base /\ _have_input /\ _have_final),
                        !.failed = (/\ calls = 1
                                    /\ last.op = "video_render"
                                    /\ last.trace[Len(last.trace)]
                                          \in {"skip_zero", "skip_final"})]
        /\ UNCHANGED <<data, host, binding, store, _debug_texture>>

(***************************************************************************)
(* video_render, stage by stage, on a record s of the members it writes.   *)
(* Textures are named by what was rendered into them.                      *)
(***************************************************************************)
NoTex == "null"
TargetTex == "target"
MixTex == "mix"
SourceTex(src) == src

\* Both dimensions of a size: zero or not.
Dims == {0, 16}

\* Where a capture or the mixing pass throws: not at all, or in
\* rendertarget::render, before anything is drawn ("rt"); the mixing pass also
\* where it sets the effect parameters, inside the pushed blend state ("fx").
BaseThrows == {"none", "rt"}
InputThrows == {"none", "rt"}
FinalThrows == {"none", "rt", "fx"}

Slots ==
    [hb |-> _have_base, btex |-> _base_tex,
     hi |-> _have_input, itex |-> _input_tex,
     ics |-> _input_color_space, ifmt |-> _input_color_format,
     hf |-> _have_final, ftex |-> _final_tex,
     brend |-> 0, mixed |-> FALSE, zero |-> FALSE, drawn |-> FALSE,
     tz |-> FALSE, iz |-> FALSE, trace |-> <<>>, gs |-> gs]

\* gs_set_linear_srgb(l) and gs_enable_framebuffer_srgb(f); the blend stack.
SetSrgb(s, l, f) == [s EXCEPT !.gs.linear_srgb = l, !.gs.framebuffer_srgb = f]
PushBlend(s) == [s EXCEPT !.gs.blend = @ + 1]
PopBlend(s) == [s EXCEPT !.gs.blend = @ - 1]

\* The call did e: s with e appended to its trace.
Did(s, e) == [s EXCEPT !.trace = Append(@, e)]

\* A capture that ignores the cached base slot.
NeedBase_Always(s) == TRUE

\* The test that guards the base capture.
NeedBase(s) == ~s.hb

\* A capture that succeeds without setting _have_base.
BaseCapture_Unflagged(s, begin_ok, thrown) ==
    IF ~NeedBase(s) THEN s
    ELSE IF ~begin_ok THEN Did(s, "base_refused")
    ELSE IF thrown = "none"
         THEN Did([s EXCEPT !.brend = @ + 1, !.btex = TargetTex], "base")
    ELSE Did([s EXCEPT !.brend = @ + 1], "base_failed")

\* Lines 330-407.  brend counts the process_filter_end calls: the one that
\* draws the upstream target into _base_rt, or the one of the catch handlers.
BaseCapture(s, begin_ok, thrown) ==
    IF ~NeedBase(s) THEN s
    ELSE LET s1 == SetSrgb(s, _base_srgb, FALSE)
             s2 == IF ~begin_ok THEN Did(s1, "base_refused")
                   ELSE IF thrown = "none"
                        THEN Did([PopBlend(PushBlend(s1)) EXCEPT
                                     !.brend = @ + 1, !.hb = TRUE, !.btex = TargetTex],
                                 "base")
                   ELSE Did([s1 EXCEPT !.brend = @ + 1], "base_failed")
         IN  SetSrgb(s2, s.gs.linear_srgb, s.gs.framebuffer_srgb)

\* Lines 409-488.
InputCapture(s, input, thrown) ==
    IF s.hi THEN s
    ELSE IF input = NoSource
         THEN Did([s EXCEPT !.hi = s.hb, !.itex = s.btex,
                            !.ifmt = _base_color_format, !.ics = _base_color_space],
                  "alias")
    ELSE LET s1 == SetSrgb(s, _input_srgb, FALSE)
             s2 == IF thrown = "none"
                   THEN Did([PopBlend(PushBlend(s1)) EXCEPT
                                !.hi = TRUE, !.itex = SourceTex(input)], "input")
                   ELSE Did(s1, "input_failed")
         IN  SetSrgb(s2, s.gs.linear_srgb, s.gs.framebuffer_srgb)

\* A mixing pass whose inner catch handler does not pop the blend state.
FinalPass_NoPopOnThrow(s, thrown) ==
    IF ~(~s.hf /\ s.hb) THEN s
    ELSE LET s1 == SetSrgb(s, _final_srgb, _final_srgb)
             s2 == IF thrown = "none"
                   THEN Did([PopBlend(PushBlend(s1)) EXCEPT
                                !.ftex = MixTex, !.hf = TRUE, !.mixed = TRUE], "mix")
                   ELSE IF thrown = "fx"
                        THEN Did(PushBlend(s1), "mix_failed")
                   ELSE Did(s1, "mix_failed")
         IN  SetSrgb(s2, s.gs.linear_srgb, s.gs.framebuffer_srgb)

\* Lines 490-569.
FinalPass(s, thrown) ==
    IF ~(~s.hf /\ s.hb) THEN s
    ELSE LET s1 == SetSrgb(s, _final_srgb, _final_srgb)
             s2 == IF thrown = "none"
                   THEN Did([PopBlend(PushBlend(s1)) EXCEPT
                                !.ftex = MixTex, !.hf = TRUE, !.mixed = TRUE], "mix")
                   ELSE IF thrown = "fx"
                        THEN Did(PopBlend(PushBlend(s1)), "mix_failed")
                   ELSE Did(s1, "mix_failed")
         IN  SetSrgb(s2, s.gs.linear_srgb, s.gs.framebuffer_srgb)

\* An override that also presents the base slot as the secondary one.
DebugOverride_WritesInput(s, dbg) ==
    IF dbg = 0 THEN [s EXCEPT !.hf = s.hb, !.ftex = s.btex, !.hi = s.hb, !.itex = s.btex]
    ELSE IF dbg = 1 THEN [s EXCEPT !.hf = s.hi, !.ftex = s.itex]
    ELSE s

\* Lines 571-581.
DebugOverride(s, dbg) ==
    IF dbg = 0 THEN [s EXCEPT !.hf = s.hb, !.ftex = s.btex]
    ELSE IF dbg = 1 THEN [s EXCEPT !.hf = s.hi, !.ftex = s.itex]
    ELSE s

\* A draw that does not test _have_final.
Draw_Unchecked(s, has_image) ==
    IF s.ftex = NoTex THEN Did(s, "skip_final")
    ELSE IF ~has_image THEN Did(s, "skip_image")
    ELSE Did([s EXCEPT !.drawn = TRUE], "draw")

\* Lines 583-628: skip without a final texture or an "image" parameter.
Draw(s, has_image) ==
    IF ~s.hf \/ s.ftex = NoTex THEN Did(s, "skip_final")
    ELSE LET s1 == SetSrgb(s, s.gs.linear_srgb, s.gs.linear_srgb)
             s2 == IF ~has_image THEN Did(s1, "skip_image")
                   ELSE Did([s1 EXCEPT !.drawn = TRUE], "draw")
         IN  SetSrgb(s2, s2.gs.linear_srgb, s.gs.framebuffer_srgb)

\* A dimension test that forgets the bound input.
ZeroDimension_TargetOnly(w, h, input, iw, ih) == w = 0 \/ h = 0

\* Lines 321-328: the dimension test.
ZeroDimension(w, h, input, iw, ih) ==
    \/ w = 0 \/ h = 0
    \/ (input # NoSource /\ (iw = 0 \/ ih = 0))

\* A call that captures the input before the base.
video_render_InputFirst(s, input, dbg, w, h, iw, ih, begin_ok, bt, it, ft, has_image) ==
    IF ZeroDimension(w, h, input, iw, ih) THEN Did([s EXCEPT !.zero = TRUE], "skip_zero")
    ELSE Draw(DebugOverride(FinalPass(BaseCapture(InputCapture(s, input, it),
                                                  begin_ok, bt), ft), dbg), has_image)

video_render(s, input, dbg, w, h, iw, ih, begin_ok, bt, it, ft, has_image) ==
    IF ZeroDimension(w, h, input, iw, ih) THEN Did([s EXCEPT !.zero = TRUE], "skip_zero")
    ELSE Draw(DebugOverride(FinalPass(InputCapture(BaseCapture(s, begin_ok, bt),
                                                   input, it), ft), dbg), has_image)

\* The sizes the host reports: the target's, and the bound input's if any.
InputDims == IF _input # NoSource THEN Dims ELSE {16}

\* Every result the call can have in the current state.
RenderResults ==
    {video_render([Slots EXCEPT !.tz = (w = 0 \/ h = 0), !.iz = (iw = 0 \/ ih = 0)],
                  _input, _debug_texture, w, h, iw, ih, begin_ok, bt, it, ft, img) :
        w \in Dims, h \in Dims, iw \in InputDims, ih \in InputDims, begin_ok \in BOOLEAN,
        bt \in BaseThrows, it \in InputThrows, ft \in FinalThrows, img \in BOOLEAN}

VideoRender ==
    /\ Alive
    /\ UNCHANGED singleton
    /\ ticked
    /\ calls < MaxCalls
    /\ \E r \in RenderResults :
        /\ _have_base' = r.hb
        /\ _base_tex' = r.btex
        /\ _have_input' = r.hi
        /\ _input_tex' = r.itex
        /\ _input_color_space' = r.ics
        /\ _input_color_format' = r.ifmt
        /\ _have_final' = r.hf
        /\ _final_tex' = r.ftex
        /\ base_renders' = base_renders + r.brend
        /\ last' = [Call("video_render") EXCEPT
                        !.tz = r.tz, !.iz = r.iz, !.hadbase = _have_base,
                        !.zero = r.zero, !.drawn = r.drawn, !.mixed = r.mixed,
                        !.trace = r.trace,
                        !.failed = (last.op = "video_tick" /\ last.failed)]
        /\ gs' = r.gs
    /\ calls' = calls + 1
    /\ UNCHANGED ticked
    /\ UNCHANGED <<data, showing, active, binding, store, _debug_texture,
                   _base_color_space, _base_color_format, _base_srgb,
                   _input_srgb, _final_srgb>>

(***************************************************************************)
(* data::get: the shared data object behind a mutex and a weak_ptr.        *)
(***************************************************************************)
\* The threads on which filter instances are constructed and destroyed.  Each
\* holds at most one result of data::get at a time.
Threads == 1 .. MaxThreads
NoThread == 0
\* The thread that constructed the modelled instance; its result is _data.
Constructor == 1

\* Identities of data objects.  An identity is free again once its object is
\* destroyed, as an address is; MaxThreads objects can exist at a time.
Objects == 1 .. MaxThreads
NoObject == 0
\* The object the constructor of the modelled instance obtained.
FirstObject == 1

\* Identity of the object `new data()` allocates.
NewObject ==
    LET free == Objects \ _channel_mask_fx
    IN  CHOOSE o \in free : \A q \in free : o <= q

\* A get that enters without waiting for the mutex.
GetLock_NoMutex(t) ==
    /\ pc[t] = "idle"
    /\ instance_lock' = t
    /\ pc' = [pc EXCEPT ![t] = "lock"]
    /\ UNCHANGED <<weak_instance, use_count, _channel_mask_fx, instance>>

\* std::lock_guard<std::mutex> lock(instance_lock): waits for the mutex.
GetLock(t) ==
    /\ pc[t] = "idle"
    /\ instance_lock = NoThread
    /\ instance_lock' = t
    /\ pc' = [pc EXCEPT ![t] = "lock"]
    /\ UNCHANGED <<weak_instance, use_count, _channel_mask_fx, instance>>

\* auto instance = weak_instance.lock(): a new owner of the object if it has
\* an owner left, else null; one atomic step on the owner count.
GetWeakLock(t) ==
    /\ pc[t] = "lock"
    /\ IF weak_instance # NoObject /\ use_count[weak_instance] > 0
       THEN /\ use_count' = [use_count EXCEPT ![weak_instance] = @ + 1]
            /\ instance' = [instance EXCEPT ![t] = weak_instance]
            /\ pc' = [pc EXCEPT ![t] = "return"]
       ELSE /\ pc' = [pc EXCEPT ![t] = "create"]
            /\ UNCHANGED <<use_count, instance>>
    /\ UNCHANGED <<instance_lock, weak_instance, _channel_mask_fx>>

\* if (!instance) { instance = shared_ptr<data>{new data()};
\* weak_instance = instance; }: data::data() loads the effect.
GetCreate(t) ==
    /\ pc[t] = "create"
    /\ LET o == NewObject
       IN  /\ _channel_mask_fx' = _channel_mask_fx \cup {o}
           /\ use_count' = [use_count EXCEPT ![o] = 1]
           /\ instance' = [instance EXCEPT ![t] = o]
           /\ weak_instance' = o
    /\ pc' = [pc EXCEPT ![t] = "return"]
    /\ UNCHANGED instance_lock

\* return instance: the lock_guard releases the mutex, the caller owns the
\* result.
GetReturn(t) ==
    /\ pc[t] = "return"
    /\ instance_lock' = NoThread
    /\ pc' = [pc EXCEPT ![t] = "holding"]
    /\ UNCHANGED <<weak_instance, use_count, _channel_mask_fx, instance>>

\* The caller drops its shared_ptr (the instance's _data member is destroyed):
\* the owner count goes down by one, outside the mutex; the thread that takes
\* it to zero then destroys the object.
Release(t) ==
    /\ pc[t] = "holding"
    /\ use_count' = [use_count EXCEPT ![instance[t]] = @ - 1]
    /\ IF use_count[instance[t]] = 1
       THEN /\ pc' = [pc EXCEPT ![t] = "dispose"]
            /\ UNCHANGED instance
       ELSE /\ pc' = [pc EXCEPT ![t] = "idle"]
            /\ instance' = [instance EXCEPT ![t] = NoObject]
    /\ UNCHANGED <<instance_lock, weak_instance, _channel_mask_fx>>

\* data::~data(): the effect of the object is destroyed.
Dispose(t) ==
    /\ pc[t] = "dispose"
    /\ _channel_mask_fx' = _channel_mask_fx \ {instance[t]}
    /\ instance' = [instance EXCEPT ![t] = NoObject]
    /\ pc' = [pc EXCEPT ![t] = "idle"]
    /\ UNCHANGED <<instance_lock, weak_instance, use_count>>

\* Everything of the filter instance, which data::get does not touch.
filter == <<data, host, binding, base_slot, input_slot, final_slot, store,
            _debug_texture, counters, last>>

(***************************************************************************)
(* Construction and the specifications.                                    *)
(***************************************************************************)
\* The state after dynamic_mask_instance(settings, self): the initialiser list,
\* then update(settings).  The three sRGB members are not initialised.  The
\* host calls video_tick before the first video_render of a frame.  The
\* initialiser of _data has called data::get: the constructing thread owns the
\* data object.
InitWith(SS, HS) ==
    \E s \in SS, shw \in HS, act \in HS :
        LET u == update(s, NoBinding, ZeroChannels, ZeroPrecalc, shw, act)
        IN  /\ data = s
            /\ showing = shw
            /\ active = act
            /\ _input = u.b.input
            /\ _input_child = u.b.child
            /\ _input_vs = u.b.vs
            /\ _input_ac = u.b.ac
            /\ _have_base = FALSE
            /\ _base_tex = NoTex
            /\ _base_color_space = GS_CS_SRGB
            /\ _base_color_format = "GS_RGBA"
            /\ _base_srgb \in BOOLEAN
            /\ _have_input = FALSE
            /\ _input_tex = NoTex
            /\ _input_color_space = GS_CS_SRGB
            /\ _input_color_format = "GS_RGBA"
            /\ _input_srgb \in BOOLEAN
            /\ _have_final = FALSE
            /\ _final_tex = NoTex
            /\ _final_srgb \in BOOLEAN
            /\ _channels = u.channels
            /\ _precalc = u.precalc
            /\ _debug_texture = u.debug
            /\ ticked = FALSE
            /\ calls = 0
            /\ base_renders = 0
            /\ gs = [linear_srgb |-> FALSE, framebuffer_srgb |-> FALSE, blend |-> 0]
            /\ instance_lock = NoThread
            /\ weak_instance = FirstObject
            /\ use_count = [o \in Objects |-> IF o = FirstObject THEN 1 ELSE 0]
            /\ _channel_mask_fx = {FirstObject}
            /\ instance = [t \in Threads |-> IF t = Constructor THEN FirstObject ELSE NoObject]
            /\ pc = [t \in Threads |-> IF t = Constructor THEN "holding" ELSE "idle"]
            /\ last = [Call("create") EXCEPT !.ok = u.ok, !.name = s.input]

\* The capture pipeline: update, video_tick and video_render, the callbacks
\* that write the three slots or what the pipeline reads (the bound input and
\* the debug selector).  One channel pattern, one colour space, both sRGB flags.
PipelineSettings ==
    {MkSettings(n, Identity, d) : n \in {"", "A"}, d \in DebugValues}

Init == InitWith(PipelineSettings, {FALSE})

Next ==
    \/ Update(PipelineSettings)
    \/ VideoTick({GS_CS_SRGB})
    \/ VideoRender

Spec == Init /\ [][Next]_vars

\* Colour negotiation: the same callbacks over every colour space.
ColorSettings == {MkSettings(n, Identity, -1) : n \in {"", "A"}}

ColorInit == InitWith(ColorSettings, {FALSE})

ColorNext ==
    \/ Update(ColorSettings)
    \/ VideoTick(ColorSpaces)
    \/ VideoRender

ColorSpec == ColorInit /\ [][ColorNext]_vars

\* The data store: update, load and save over every channel pattern, with
\* video_tick and video_render in between.
StoreSettings == {MkSettings(n, p, -1) : n \in {"", "A"}, p \in ChannelPatterns}

StoreInit == InitWith(StoreSettings, {FALSE})

StoreNext ==
    \/ Update(StoreSettings)
    \/ Load
    \/ Save
    \/ VideoTick({GS_CS_SRGB})
    \/ VideoRender

StoreSpec == StoreInit /\ [][StoreNext]_vars

\* The binding: update and load over every name, the visibility and activity
\* callbacks, the host state they read, and the destructor.
BindingSettings == {MkSettings(n, Identity, -1) : n \in Names}

BindingInit == InitWith(BindingSettings, BOOLEAN)

BindingNext ==
    \/ Update(BindingSettings)
    \/ Load
    \/ Show
    \/ Hide
    \/ Activate
    \/ Deactivate
    \/ HostState
    \/ Destroy

BindingSpec == BindingInit /\ [][BindingNext]_vars

\* The binding across frames: a filter that is showing and active, update with
\* and without a name, the visibility and activity callbacks, video_tick,
\* video_render and the destructor.
FrameSettings == {MkSettings(n, Identity, -1) : n \in {"", "A"}}

FrameInit == InitWith(FrameSettings, {TRUE})

FrameNext ==
    \/ Update(FrameSettings)
    \/ Show
    \/ Hide
    \/ Activate
    \/ Deactivate
    \/ VideoTick({GS_CS_SRGB})
    \/ VideoRender
    \/ Destroy

FrameSpec == FrameInit /\ [][FrameNext]_vars

\* The graphics state: update, video_tick and video_render with the mixing
\* result presented, and a host that changes the sRGB flags between calls.
GsSettings == {MkSettings(n, Identity, -1) : n \in {"", "A"}}

GsInit == InitWith(GsSettings, {FALSE})

GsNext ==
    \/ Update(GsSettings)
    \/ HostGraphics
    \/ VideoTick({GS_CS_SRGB})
    \/ VideoRender

GsSpec == GsInit /\ [][GsNext]_vars

\* data::get called from several threads, each dropping its result later; the
\* filter instance itself is left alone.
DataSettings == {MkSettings("", Identity, -1)}

DataInit == InitWith(DataSettings, {FALSE})

DataNext ==
    \/ \E t \in Threads : GetLock(t) /\ UNCHANGED filter
    \/ \E t \in Threads : GetWeakLock(t) /\ UNCHANGED filter
    \/ \E t \in Threads : GetCreate(t) /\ UNCHANGED filter
    \/ \E t \in Threads : GetReturn(t) /\ UNCHANGED filter
    \/ \E t \in Threads : Release(t) /\ UNCHANGED filter
    \/ \E t \in Threads : Dispose(t) /\ UNCHANGED filter

DataSpec == DataInit /\ [][DataNext]_vars

(***************************************************************************)
(* Properties of the capture pipeline (specification Spec).                *)
(***************************************************************************)
Rendered == last.op = "video_render"
NotSkippedForSize == Rendered /\ ~last.zero

\* C1 as stated: between two video_tick calls process_filter_end renders the
\* upstream target for the base capture at most once, failed captures included.
C1_AtMostOncePerTick == base_renders <= 1

\* C1: once the base slot is valid, every later video_render call of the tick
\* keeps it valid and does not render the upstream target again; only calls
\* that start without a valid base slot render it.
C1_NoRenderOnceCaptured ==
    [][(last'.op = "video_render" /\ calls' = calls + 1 /\ _have_base)
          => (base_renders' = base_renders /\ _have_base')]_vars

\* A second call of a tick found the base slot valid after exactly one render.
C1_Witness ==
    Rendered /\ last.hadbase /\ calls = 2 /\ base_renders = 1 /\ _have_base

\* C2: right after video_tick the three validity flags are false.
C2_TickInvalidates ==
    last.op = "video_tick" => (~_have_base /\ ~_have_input /\ ~_have_final)

\* A tick that found all three slots valid, with nothing bound.
C2_Witness ==
    last.op = "video_tick" /\ last.valid /\ _input = NoSource /\ ~_have_input

\* C3: a video_render call for which the target, or the bound input, reports a
\* zero dimension draws nothing and leaves all three slots as they were.
C3_ZeroDimensionSkip ==
    [][(last'.op = "video_render" /\ calls' = calls + 1
          /\ (last'.tz \/ (_input # NoSource /\ last'.iz)))
          => (/\ ~last'.drawn
              /\ UNCHANGED <<base_slot, input_slot, final_slot>>)]_vars

\* Only the bound input had a zero dimension, with the slots not yet captured.
C3_Witness ==
    Rendered /\ last.iz /\ ~last.tz /\ last.zero /\ _input # NoSource /\ ~_have_base

\* C4 as stated: after a call not skipped for size, selector 0 (1) presents the
\* base (secondary) slot as final, and selector -1 presents the mixing result.
C4_DebugPrecedence ==
    NotSkippedForSize =>
        /\ _debug_texture = 0 => (_final_tex = _base_tex /\ _have_final = _have_base)
        /\ _debug_texture = 1 => (_final_tex = _input_tex /\ _have_final = _have_input)
        /\ (_debug_texture = -1 /\ _have_final) => _final_tex = MixTex

\* C5 as stated: with nothing bound, after a call not skipped for size the
\* secondary slot equals the base slot in every field.
C5_AliasIdentical ==
    (NotSkippedForSize /\ _input = NoSource) =>
        /\ _input_tex = _base_tex
        /\ _input_color_space = _base_color_space
        /\ _input_color_format = _base_color_format
        /\ _input_srgb = _base_srgb
        /\ _have_input = _have_base

\* How a call ended: the last entry of its trace.
Outcomes == {"draw", "skip_zero", "skip_final", "skip_image"}
Outcome == last.trace[Len(last.trace)]
Count(tr, E) == Cardinality({i \in DOMAIN tr : tr[i] \in E})

\* C12: every video_render call ends either with the final texture drawn once
\* or with a skip, and nothing follows either; it is skipped exactly when a
\* dimension is zero, when after the debug override the final slot is invalid
\* or its texture empty, or when the effect has no "image" parameter.
C12_DrawnOrSkipped ==
    Rendered =>
        /\ Count(last.trace, Outcomes) = 1
        /\ Outcome \in Outcomes
        /\ last.drawn <=> Outcome = "draw"
        /\ Outcome # "draw" <=>
              \/ last.tz
              \/ (_input # NoSource /\ last.iz)
              \/ ~_have_final
              \/ _final_tex = NoTex
              \/ Outcome = "skip_image"

\* The mixing pass succeeded and the effect had no "image" parameter.
C12_Witness ==
    Rendered /\ last.trace = <<"base", "input", "mix", "skip_image">>

\* The first call after a video_tick, with no zero dimension and no capture or
\* mixing pass refused or failed.
CaptureFailures == {"base_refused", "base_failed", "input_failed", "mix_failed"}
Clean ==
    /\ Rendered
    /\ calls = 1
    /\ ~last.tz
    /\ ~(_input # NoSource /\ last.iz)
    /\ Count(last.trace, CaptureFailures) = 0

\* C13 as stated: after a tick whose render call was skipped for a zero
\* dimension or a failed capture, the first call of the next tick draws the
\* final texture if the dimensions are nonzero and every capture and the mixing
\* pass succeed.
C13_RecoversNextTick == (Clean /\ last.failed) => last.drawn

\* C13: the same, for calls whose effect has an "image" parameter: the call
\* draws, and what it draws was captured in this call.
C13_RecoversWithImage ==
    (Clean /\ last.failed /\ Outcome # "skip_image") =>
        /\ last.drawn
        /\ last.trace[1] = "base"
        /\ _have_base /\ _have_input /\ _have_final

\* A tick skipped for size, then a tick whose first call captured, mixed and drew.
C13_Witness ==
    /\ Rendered
    /\ last.failed
    /\ _input # NoSource
    /\ last.trace = <<"base", "input", "mix", "draw">>

\* The stages of a call, and the stage an entry of the trace belongs to.
BaseEvents == {"base", "base_refused", "base_failed"}
InputEvents == {"input", "input_failed", "alias"}
MixEvents == {"mix", "mix_failed"}
Stage(e) ==
    IF e \in BaseEvents THEN 1
    ELSE IF e \in InputEvents THEN 2
    ELSE IF e \in MixEvents THEN 3
    ELSE 4

\* C17 as stated: a call that captured the bound input ends with a valid base
\* slot: the base was captured earlier in the call or in the tick.
C17_InputAfterBase ==
    (Rendered /\ Count(last.trace, {"input"}) > 0) => _have_base

\* C17: in every call the stages run in the order base capture, input capture,
\* mixing pass, outcome, each at most once; a call that reaches the input
\* capture has tried the base capture before it or found the base slot valid;
\* the mixing pass runs only on a valid base slot.
C17_StagesInOrder ==
    Rendered =>
        /\ \A i \in DOMAIN last.trace : \A j \in DOMAIN last.trace :
              i < j => Stage(last.trace[i]) < Stage(last.trace[j])
        /\ Count(last.trace, InputEvents) > 0 =>
              (last.hadbase \/ last.trace[1] \in BaseEvents)
        /\ Count(last.trace, MixEvents) > 0 => _have_base

\* The base capture failed and the capture of the bound input succeeded.
C17_Witness ==
    /\ Rendered
    /\ _input # NoSource
    /\ last.trace = <<"base_failed", "input", "skip_final">>

\* C18 as stated: a call that ran the mixing pass, successfully or not, ran it
\* on a valid base slot and a valid secondary slot, so that both textures it
\* bound were captured or aliased since the last video_tick.
C18_MixNeedsBothSlots ==
    (Rendered /\ Count(last.trace, MixEvents) > 0) => (_have_base /\ _have_input)

\* C19 as stated: no step other than video_tick turns a validity flag from true
\* to false, and a flag turns true only in a call that rendered into its slot:
\* the base capture, the capture of the bound input or the alias of a valid
\* base, the mixing pass.  A flag then rises at most once between two ticks,
\* and of two calls in a row at most one completes the mixing pass.
C19_FlagsRiseOnce ==
    [][last'.op # "video_tick" =>
          /\ (Rendered /\ last.mixed /\ last'.op = "video_render") => ~last'.mixed
          /\ _have_base => _have_base'
          /\ _have_input => _have_input'
          /\ _have_final => _have_final'
          /\ (~_have_base /\ _have_base') => Count(last'.trace, {"base"}) = 1
          /\ (~_have_input /\ _have_input') =>
                \/ Count(last'.trace, {"input"}) = 1
                \/ (Count(last'.trace, {"alias"}) = 1 /\ _have_base')
          /\ (~_have_final /\ _have_final') => Count(last'.trace, {"mix"}) = 1]_vars

\* C20 as stated: a call whose base capture was refused or threw has tried it
\* once and ends with a skip, whatever the debug selector and the binding.
C20_FailedBaseSkips ==
    (Rendered /\ Count(last.trace, {"base_refused", "base_failed"}) > 0) =>
        /\ Count(last.trace, BaseEvents) = 1
        /\ ~last.drawn
        /\ Outcome \in {"skip_final", "skip_image"}

\* C21 as stated: a call made while the debug selector is 0 or 1 does not run
\* the mixing pass, the first call after a video_tick included.
C21_DebugBypassesMix ==
    (Rendered /\ _debug_texture \in {0, 1}) => Count(last.trace, MixEvents) = 0

\* C22: the debug override, applied to the slots of any reachable state with
\* any selector, changes at most the validity and the texture of the final
\* slot, and nothing with selector -1; and a call changes the base slot only
\* by a base capture and the secondary slot only by an input capture or alias.
C22_OverrideWritesFinalOnly ==
    [][/\ \A d \in DebugValues :
            LET r == DebugOverride(Slots, d)
            IN  /\ [r EXCEPT !.hf = _have_final, !.ftex = _final_tex] = Slots
                /\ d = -1 => r = Slots
       /\ (last'.op = "video_render" /\ Count(last'.trace, {"base"}) = 0) =>
             UNCHANGED base_slot
       /\ (last'.op = "video_render" /\ Count(last'.trace, {"input", "alias"}) = 0) =>
             UNCHANGED input_slot]_vars

\* With selector 0 the override replaced the result of the mixing pass by the
\* base texture, while the secondary slot was still invalid.
C22_Witness ==
    /\ Rendered
    /\ _debug_texture = 0
    /\ last.trace = <<"base", "input_failed", "mix", "draw">>
    /\ _final_tex = TargetTex
    /\ ~_have_input

\* C24 as stated: after a call not skipped for size, a valid secondary slot
\* holds a capture of the source bound now, or the base texture when nothing
\* is bound, also when update changed the binding earlier in the tick.
C24_InputTexOfBound ==
    (NotSkippedForSize /\ _have_input) =>
        _input_tex = (IF _input = NoSource THEN _base_tex ELSE SourceTex(_input))

(***************************************************************************)
(* Properties of the data store (specification StoreSpec).                 *)
(***************************************************************************)
\* The values a settings object yields for the channel keys.
ChannelKeys(d) ==
    [c \in Channels |->
        [value  |-> GetValue(d, c),
         scale  |-> GetMultiplier(d, c),
         values |-> [i \in Channels |-> GetInput(d, c, i)]]]

\* C6: in every state the precalculated transform equals the stored channel
\* settings: base and scale entry c, and matrix row c, are those of channel c.
C6_PrecalcMatchesStore ==
    \A c \in Channels :
        /\ _precalc.base[c] = _channels[c].value
        /\ _precalc.scale[c] = _channels[c].scale
        /\ _precalc.matrix[c] = _channels[c].values

\* An update stored the pattern with sixteen distinct weights.
C6_Witness ==
    /\ last.op = "update"
    /\ _channels[0].value = -200
    /\ _precalc.matrix[1][3] = 27
    /\ _precalc.matrix[3][1] = 33

\* C7 as stated: save writes back exactly the values the settings object held
\* when update read it.
C7_RoundTripExact ==
    [][last'.op = "save" => ChannelKeys(data') = ChannelKeys(data)]_vars

\* C7: save writes back every value update read, rounded to single precision
\* and not clamped; and load on the saved object leaves the store unchanged.
C7_RoundTripFloat ==
    [][/\ last'.op = "save" =>
            \A c \in Channels :
                /\ ChannelKeys(data')[c].value = CastFloat(ChannelKeys(data)[c].value)
                /\ ChannelKeys(data')[c].scale = CastFloat(ChannelKeys(data)[c].scale)
                /\ \A i \in Channels :
                     ChannelKeys(data')[c].values[i] =
                        CastFloat(ChannelKeys(data)[c].values[i])
       /\ (last.op = "save" /\ last'.op = "load") => UNCHANGED _channels]_vars

\* A save wrote values outside the slider range, and a rounded one.
C7_Witness ==
    /\ last.op = "save"
    /\ data.value[0] = -200
    /\ data.scale[3] = 150
    /\ data.values[1][2] = 16777216

\* C14 as stated: after update (or load, or the constructor) read a settings
\* object that lacks the keys of channel c, the store holds offset 0, scale 1
\* and four weights 0 for c.
C14_MissingKeysZero ==
    last.op \in {"create", "update", "load"} =>
        \A c \in Channels :
            ~data.has[c] =>
                _channels[c] = [value |-> 0, scale |-> 1, values |-> ZeroVec]

\* C14: the same with offset 1, the default get_defaults2 registers for the
\* offset key; the precalculated transform holds the same values.
C14_MissingKeysDefault ==
    last.op \in {"create", "update", "load"} =>
        \A c \in Channels :
            ~data.has[c] =>
                /\ _channels[c] = [value |-> 1, scale |-> 1, values |-> ZeroVec]
                /\ _precalc.base[c] = 1
                /\ _precalc.scale[c] = 1
                /\ _precalc.matrix[c] = ZeroVec

\* An update read an object without the Red and Alpha keys, over a store that
\* held other values for them.
C14_Witness ==
    /\ last.op = "update"
    /\ ~data.has[0] /\ ~data.has[3]
    /\ _channels[0].value = 1
    /\ _channels[1].value = 7

(***************************************************************************)
(* Properties of the colour negotiation (specification ColorSpec).         *)
(***************************************************************************)
\* C8: the colour format of either slot is the fixed table applied to the
\* colour space of that slot.
C8_FormatTable ==
    LET Table(cs) ==
            CASE cs = 0 -> "GS_RGBA"
              [] cs \in {1, 2, 3} -> "GS_RGBA16F"
              [] OTHER -> "GS_RGBA_UNORM"
    IN  /\ _base_color_format = Table(_base_color_space)
        /\ _input_color_format = Table(_input_color_space)

\* A tick negotiated an scRGB base and a bound input of an unlisted space.
C8_Witness ==
    /\ last.op = "video_tick"
    /\ _input # NoSource
    /\ _base_color_space = GS_CS_709_SCRGB
    /\ _input_color_space = GS_CS_OTHER
    /\ _base_color_format = "GS_RGBA16F"
    /\ _input_color_format = "GS_RGBA_UNORM"

\* C9 as stated: after a tick with an input bound, each sRGB eligibility is
\* decided by that source's own flag and own colour space.
C9_SrgbPerSource ==
    (last.op = "video_tick" /\ _input # NoSource) =>
        /\ _input_srgb = (last.iflag /\ _input_color_space <= GS_CS_SRGB_16F)
        /\ _base_srgb = (last.bflag /\ _base_color_space <= GS_CS_SRGB_16F)

(***************************************************************************)
(* Properties of the binding (specification BindingSpec).                  *)
(***************************************************************************)
\* C10: after update or load read a name that does not resolve, or one that
\* would close a render cycle, acquire has returned false and the filter holds
\* no source, no child and no showing or active reference.
C10_FailedAcquireUnbinds ==
    (last.op \in {"create", "update", "load"} /\ last.name \in {CycleName, GoneName}) =>
        /\ last.ok = "false"
        /\ _input = NoSource
        /\ _input_child = NoSource
        /\ _input_vs = NoSource
        /\ _input_ac = NoSource

\* The cyclic name was tried while a source was bound and both references held.
C10_Witness ==
    /\ last.op = "update"
    /\ last.name = CycleName
    /\ last.prev = [input |-> "A", child |-> "A", vs |-> "A", ac |-> "A"]
    /\ _input = NoSource

\* C11 as stated: in every state the showing reference and the active reference
\* the filter holds, if any, are on the currently bound source; with nothing
\* bound it holds none.
C11_ReferencesOnBound ==
    /\ _input_vs \in {NoSource, _input}
    /\ _input_ac \in {NoSource, _input}

\* Where release() has just run on its own: the destructor, or update, load or
\* the constructor with an empty input name.
Released ==
    \/ last.op = "destroy"
    \/ (last.op \in {"create", "update", "load"} /\ last.name = "")

\* C15: release() leaves no source, no child and no showing or active reference,
\* whatever the binding was, and a second release() changes nothing.
C15_ReleaseIdempotent ==
    /\ Released => Binding = NoBinding
    /\ release(Binding) = NoBinding
    /\ release(release(Binding)) = release(Binding)

\* The destructor ran while a source was bound and both references were held.
C15_Witness ==
    /\ last.op = "destroy"
    /\ last.prev = [input |-> "A", child |-> "A", vs |-> "A", ac |-> "A"]
    /\ Binding = NoBinding

(***************************************************************************)
(* Properties of the binding across frames (specification FrameSpec).      *)
(***************************************************************************)
\* C16: video_tick and video_render leave the bound source, the child and the
\* showing and active references as they were; a step that changes one of them
\* is update, load, show, hide, activate, deactivate or the destructor.
C16_FrameKeepsBinding ==
    [][/\ last'.op \in {"video_tick", "video_render"} => UNCHANGED binding
       /\ binding' # binding =>
             last'.op \in {"update", "load", "show", "hide", "activate",
                           "deactivate", "destroy"}]_vars

\* A frame was drawn while a source was bound and both references were held.
C16_Witness ==
    /\ Rendered
    /\ last.drawn
    /\ Binding = [input |-> "A", child |-> "A", vs |-> "A", ac |-> "A"]

(***************************************************************************)
(* Properties of the graphics state (specification GsSpec).                *)
(***************************************************************************)
\* C23: every video_render call returns with the linear-sRGB flag, the
\* framebuffer-sRGB flag and the depth of the blend stack as it found them,
\* whatever the call did and however it ended.
C23_GraphicsStateRestored ==
    [][last'.op = "video_render" => gs' = gs]_vars

\* A call entered with both flags set ran all three passes with sRGB off and
\* drew the result.
C23_Witness ==
    /\ Rendered
    /\ gs = [linear_srgb |-> TRUE, framebuffer_srgb |-> TRUE, blend |-> 0]
    /\ ~_base_srgb /\ ~_final_srgb
    /\ _input # NoSource /\ ~_input_srgb
    /\ last.trace = <<"base", "input", "mix", "draw">>

(***************************************************************************)
(* Properties of data::get (specification DataSpec).                       *)
(***************************************************************************)
\* The data objects that have an owner.
Referenced == {o \in Objects : use_count[o] > 0}

\* The threads that hold a result of data::get.
Holders == {t \in Threads : pc[t] = "holding"}

\* The step is the `new data()` of some thread.
Creates == \E t \in Threads : pc[t] = "create" /\ pc'[t] = "return"

\* C25 as stated: for any interleaving of data::get calls and drops of their
\* results, at most one data object (one load of the effect) exists at any
\* time, all threads holding a result at the same time hold the same object,
\* and an object is created only when no object has an owner.
C25_OneObjectAlive ==
    [][/\ Cardinality(_channel_mask_fx') <= 1
       /\ \A t, u \in Holders' : instance'[t] = instance'[u]
       /\ Creates => Referenced = {}]_vars

\* C25, amended: for any interleaving, at most one data object has an owner at
\* any time and it is loaded, the owner count of an object is the number of
\* threads that own it, all threads holding a result at the same time hold the
\* same object, and an object is created only when no object has an owner; the
\* objects without an owner that still exist are each being destroyed by the
\* thread that dropped the last reference, so that up to one load of the effect
\* per thread can exist at a time.
C25_OneObjectReferenced ==
    [][/\ Cardinality(Referenced') <= 1
       /\ Referenced' \subseteq _channel_mask_fx'
       /\ \A o \in Objects :
            use_count'[o] = Cardinality({t \in Threads : /\ instance'[t] = o
                                                         /\ pc'[t] \in {"return", "holding"}})
       /\ \A t, u \in Holders' : instance'[t] = instance'[u]
       /\ Creates => Referenced = {}
       /\ \A o \in _channel_mask_fx' \ Referenced' :
            \E t \in Threads : pc'[t] = "dispose" /\ instance'[t] = o
       /\ Cardinality(_channel_mask_fx') <= MaxThreads]_vars

\* Two threads hold the same object, created after the last reference to its
\* predecessor was dropped, while a third thread is still destroying the
\* predecessor: two loads of the effect exist.
C25_Witness ==
    \E t, u, v \in Threads :
        /\ t # u
        /\ pc[t] = "holding" /\ pc[u] = "holding"
        /\ instance[t] = instance[u]
        /\ pc[v] = "dispose"
        /\ instance[v] # instance[t]
        /\ _channel_mask_fx = {instance[t], instance[v]}

====
